---------------------------- MODULE Spec2Model ----------------------------
(***************************************************************************)
(* A model of storybook-llms-extractor (src/src/utils.ts).                 *)
(*                                                                         *)
(*   Spec       one run: extractStorybookData (browser launch, registry    *)
(*              lookup, enrichment of prose pages, browser release)        *)
(*              followed by the file writers.                              *)
(*   SpecRoute  the static asset resolver installed by setupStaticRouting. *)
(*   SpecGen    the per-item text generator and the file it is written to. *)
(*                                                                         *)
(* Optional JavaScript values (undefined / absent property) are sets of at *)
(* most one element: None is absent, Some(v) is present with value v.      *)
(* Identifiers are sequences of tokens (<<"a", "--", "x">> is "a--x").     *)
(***************************************************************************)
EXTENDS Integers, Sequences, FiniteSets, TLC

VARIABLES
    pc,          \* position of the run
    browser,     \* "none" | "open" | "closed": the chromium process
    context,     \* "none" | "open" | "closed": the browser context
    openPages,   \* number of pages currently open in the context
    preview,     \* window.__STORYBOOK_PREVIEW__ of the entry page (None: absent)
    storeItems,  \* the item collection built by extractAllStoriesFromStorybook
    raw,         \* history: storeItems as first marshalled out of the page
    i,           \* index of the item the enrichment / writer loop is at
    j,           \* index of the story variant the enrichment loop is at
    error,       \* the exception in flight or raised (None: none)
    result,      \* the value extractStorybookData returned (None: not returned)
    failedAt,    \* history: positions <<i, j>> whose content extraction failed
    llmsFiles,   \* names of the files present in <distPath>/llms
    rootFiles,   \* names of the files present in <distPath>
    written,     \* history: the per-item writes, in order
    \* ---- static asset resolver (SpecRoute)
    distPath,    \* the site root given to setupStaticRouting
    disk,        \* absolute paths of the files that exist
    unreadable,  \* the existing files whose read fails
    request,     \* pathname of the request being routed (None: idle)
    response,    \* the answer given by route.fulfill (None: not answered)
    readLog,     \* history: absolute paths handed to readFile
    \* ---- per-item text generation (SpecGen)
    genItem,     \* the item handed to writeFullDocsFiles' loop body
    genOut,      \* what the loop body wrote (None: not run yet)
    \* ---- the pure generators and converters (SpecPure)
    call,        \* the function applied and its arguments (None: idle)
    returned     \* the value it returned (None: not applied yet)

runVars   == <<pc, browser, context, openPages, preview, storeItems,
               raw, i, j, error, result, failedAt, llmsFiles, rootFiles, written>>
routeVars == <<distPath, disk, unreadable, request, response, readLog>>
genVars   == <<genItem, genOut>>
pureVars  == <<call, returned>>
vars      == <<runVars, routeVars, genVars, pureVars>>

----------------------------------------------------------------------------
(* Optional values and small sequence helpers                              *)

None == {}

Some(v) == {v}

Val(o) == CHOOSE v \in o : TRUE

Range(s) == { s[k] : k \in 1..Len(s) }

SeqsUpTo(S, n) == UNION { [1..m -> S] : m \in 0..n }

\* the backquote character (it cannot be written in a string of this
\* language: an apostrophe stands for it)
Tick == "'"

\* String.prototype.startsWith, on sequences of characters or tokens
StartsWith(s, p) == Len(p) <= Len(s) /\ SubSeq(s, 1, Len(p)) = p

\* String.prototype.endsWith
EndsWith(s, p) == Len(p) <= Len(s) /\ SubSeq(s, Len(s) - Len(p) + 1, Len(s)) = p

\* Array.prototype.filter(Boolean) on an array of strings: drops the empty ones
RECURSIVE FilterNonEmpty(_)
FilterNonEmpty(s) ==
    IF s = <<>> THEN <<>>
    ELSE IF Head(s) = "" THEN FilterNonEmpty(Tail(s))
    ELSE <<Head(s)>> \o FilterNonEmpty(Tail(s))

\* Array.prototype.join on an array of strings
RECURSIVE JoinStr(_, _)
JoinStr(s, sep) ==
    IF s = <<>> THEN ""
    ELSE IF Len(s) = 1 THEN s[1]
    ELSE s[1] \o sep \o JoinStr(Tail(s), sep)

\* a text is a sequence of tokens, of which " " and "\n" are white space
WhiteSpace == { " ", "\n" }

RECURSIVE TrimStart(_)
TrimStart(ts) ==
    IF ts # <<>> /\ Head(ts) \in WhiteSpace THEN TrimStart(Tail(ts)) ELSE ts

RECURSIVE TrimEnd(_)
TrimEnd(ts) ==
    IF ts # <<>> /\ ts[Len(ts)] \in WhiteSpace
    THEN TrimEnd(SubSeq(ts, 1, Len(ts) - 1)) ELSE ts

\* String.prototype.trim
Trim(ts) == JoinStr(TrimEnd(TrimStart(ts)), "")

----------------------------------------------------------------------------
(* Bounds and input alphabets                                              *)

\* longest registry map / flat extract() result handed to a run
MaxItems == 2

MdxFile == <<"x", ".mdx">>

TsxFile == <<"x", ".tsx">>

\* meta.parameters.fileName as found in the registry: absent, prose page, CSF
FileNames == { None, Some(MdxFile), Some(TsxFile) }

\* the docsOnly flags of an item's story variants, in variant order
DocsOnlyPatterns == { <<TRUE>>, <<FALSE>>, <<TRUE, TRUE>>, <<TRUE, FALSE>> }

\* an element of the markup: its tag, the class lists of its descendants in
\* document order, and its inner content as a text
Element(tag, descendants, content) ==
    [ tag |-> tag, descendants |-> descendants, content |-> content ]

\* markup found in .sbdocs-content: a sequence of elements
PageHtmls == { <<>>, << Element("P", <<>>, <<"A">>) >> }

----------------------------------------------------------------------------
(* StorybookStoreItem values (src/src/types.ts is not part of src/; the    *)
(* fields are the ones utils.ts reads)                                     *)

Story(id, name, docsOnly) ==
    [ id             |-> id,        \* None: undefined
      name           |-> name,
      docsOnly       |-> docsOnly,  \* parameters.docsOnly is truthy
      fullSource     |-> None,      \* parameters.fullSource
      description    |-> None,      \* parameters.docs.description.story
      originalSource |-> None ]     \* parameters.docs.source.originalSource

Meta(id, title, fileName) ==
    [ id            |-> id,
      title         |-> title,
      fileName      |-> fileName,   \* parameters.fileName
      description   |-> None,       \* parameters.docs.description.component
      component     |-> None,       \* component.__docgenInfo
      subcomponents |-> None ]

Item(meta, stories) == [ meta |-> meta, stories |-> stories ]

StoryNames == <<"page", "y", "z">>

\* the variants of a registry item with the given docsOnly flags
RECURSIVE StoriesOf(_, _, _)
StoriesOf(id, flags, k) ==
    IF k > Len(flags) THEN <<>>
    ELSE <<Story(Some(id \o <<"--", StoryNames[k]>>), "Story", flags[k])>>
            \o StoriesOf(id, flags, k + 1)

\* the items a registry map may hold: no stories collection at all, an empty
\* one (with every kind of file name), or one to two variants; the second
\* id comes with a prose page only
RegistryItems ==
    { Item(Meta(<<"a">>, "T", Some(TsxFile)), None) }
      \cup { Item(Meta(<<"a">>, "T", f), Some(<<>>)) : f \in FileNames }
      \cup { Item(Meta(<<"a">>, "T", Some(TsxFile)), Some(StoriesOf(<<"a">>, fl, 1))) :
                fl \in DocsOnlyPatterns }
      \cup { Item(Meta(<<"b">>, "T", Some(MdxFile)), Some(<<>>)),
             Item(Meta(<<"b">>, "T", Some(MdxFile)), Some(StoriesOf(<<"b">>, <<TRUE>>, 1))) }

\* a flat entry of preview.extract()
FlatEntry(sid, cid, t, par) ==
    [ id          |-> sid,
      componentId |-> cid,
      title       |-> t,
      kind        |-> None,
      name        |-> Some("N"),
      story       |-> None,
      parameters  |-> par ]

\* parameters of a prose page's entry
ProseParameters == Some([fileName |-> Some(MdxFile), docsOnly |-> TRUE])

\* the entries preview.extract() may resolve to: with and without an id, a
\* componentId, a title and parameters
FlatEntries ==
    { FlatEntry(sid, None, Some("T"), par) :
        sid \in { None, Some(<<"a", "--", "x">>), Some(<<"a", "--", "y">>),
                  Some(<<"b", "--", "x">>) },
        par \in { None, ProseParameters } }
      \cup { FlatEntry(Some(<<"a", "--", "x">>), Some(<<"b">>), None, None),
             FlatEntry(None, Some(<<"b">>), None, ProseParameters) }

----------------------------------------------------------------------------
(* The registry object window.__STORYBOOK_PREVIEW__ and its story store    *)

Store(cacheAll, cached, cache, stories, other) ==
    [ cacheAllCSFFiles |-> cacheAll,  \* Some(m): a function that caches m
      cachedCSFFiles   |-> cached,
      cache            |-> cache,
      stories          |-> stories,
      other            |-> other ]    \* names of its other properties

Preview(extract, storyStore, storyStoreValue, other) ==
    [ extract         |-> extract,    \* Some(r): a function resolving to r
      storyStore      |-> storyStore,
      storyStoreValue |-> storyStoreValue,
      other           |-> other ]

\* Object.keys(storyStore)
StoreKeys(st) ==
    (IF st.cacheAllCSFFiles # None THEN {"cacheAllCSFFiles"} ELSE {})
      \cup (IF st.cachedCSFFiles # None THEN {"cachedCSFFiles"} ELSE {})
      \cup (IF st.cache # None THEN {"cache"} ELSE {})
      \cup (IF st.stories # None THEN {"stories"} ELSE {})
      \cup st.other

\* Object.keys(preview)
PreviewKeys(p) ==
    (IF p.extract # None THEN {"extract"} ELSE {})
      \cup (IF p.storyStore # None THEN {"storyStore"} ELSE {})
      \cup (IF p.storyStoreValue # None THEN {"storyStoreValue"} ELSE {})
      \cup p.other

\* the registries a built site may expose, for a registry map m and a flat
\* extract() result f
PreviewsOf(m, f) ==
    { Preview(Some(f), None, None, {"ready"}),
      Preview(None, Some(Store(Some(m), None, None, None, {})), None, {}),
      Preview(None, None, Some(Store(None, Some(m), None, None, {})), {}),
      Preview(None, Some(Store(None, None, Some(m), None, {})), None, {}),
      Preview(None, None, Some(Store(None, None, None, Some(m), {})), {}) }

\* a registry map of one item, told from the others by its title
MapTitled(title) ==
    << Item(Meta(<<"a">>, title, Some(TsxFile)), Some(StoriesOf(<<"a">>, <<FALSE>>, 1))) >>

\* stores that expose any of the four item maps, each with its own content
MixedStores ==
    { Store(ca, cd, c, st, {}) :
        ca \in { None, Some(MapTitled("cacheAllCSFFiles")) },
        cd \in { None, Some(MapTitled("cachedCSFFiles")) },
        c  \in { None, Some(MapTitled("cache")) },
        st \in { None, Some(MapTitled("stories")) } }

\* registries that expose several shapes at once
MixedPreviews ==
    { Preview(e, ss, sv, {}) :
        e  \in { None, Some(<< FlatEntry(Some(<<"a", "--", "x">>), None, Some("extract"), None) >>) },
        ss \in {None} \cup { Some(st) : st \in MixedStores },
        sv \in { None,
                 Some(Store(None, None, None, None, {})),
                 Some(Store(None, Some(MapTitled("value.cachedCSFFiles")), None, None, {})),
                 Some(Store(None, None, None, Some(MapTitled("value.stories")), {})) } }

\* registries with none of the known shapes
UnknownPreviews ==
    { Preview(None, None, None, {"channel"}),
      Preview(None, None, None, {"channel", "ready"}),
      Preview(None, Some(Store(None, None, None, None, {"args"})), None, {"channel"}),
      Preview(None, None, Some(Store(None, None, None, None, {})), {}) }

Error(name, message, previewKeys, storeKeys) ==
    [ name        |-> name,
      message     |-> message,
      previewKeys |-> previewKeys,   \* Some(ks): the message lists ks
      storeKeys   |-> storeKeys ]

Threw(e) == [ threw |-> TRUE, error |-> e ]

Returned(v) == [ threw |-> FALSE, value |-> v ]

\* a variant that looks at storyStoreValue first
getStoryStoreValueFirst(p) ==
    IF p.storyStoreValue # None THEN Returned(Val(p.storyStoreValue))
    ELSE IF p.storyStore # None THEN Returned(Val(p.storyStore))
    ELSE Threw(Error("Error", "Unable to find Storybook story store", None, None))

\* getStoryStore: the first of storyStore, storyStoreValue that is present
getStoryStore(p) ==
    IF p.storyStore # None THEN Returned(Val(p.storyStore))
    ELSE IF p.storyStoreValue # None THEN Returned(Val(p.storyStoreValue))
    ELSE Threw(Error("Error", "Unable to find Storybook story store", None, None))

\* story.componentId || story.id?.split('--')[0] || 'unknown'
RECURSIVE BeforeDashes(_)
BeforeDashes(id) ==
    IF id = <<>> \/ Head(id) = "--" THEN <<>>
    ELSE <<Head(id)>> \o BeforeDashes(Tail(id))

ComponentIdOf(story) ==
    IF story.componentId # None /\ Val(story.componentId) # <<>>
    THEN Val(story.componentId)
    ELSE IF story.id # None /\ BeforeDashes(Val(story.id)) # <<>>
    THEN BeforeDashes(Val(story.id))
    ELSE <<"unknown">>

\* a || b || fallback on optional strings
OrElse(a, b, fallback) ==
    IF a # None /\ Val(a) # "" THEN Val(a)
    ELSE IF b # None /\ Val(b) # "" THEN Val(b)
    ELSE fallback

\* the meta wrapper created for the first entry seen of a component
NewGroup(componentId, story) ==
    Item(Meta(componentId,
              OrElse(story.title, story.kind, "Unknown"),
              IF story.parameters # None /\ Val(story.parameters).fileName # None
              THEN Val(story.parameters).fileName ELSE Some(<<>>)),
         Some(<<>>))

\* the variant stored under item.stories[story.id]
VariantOf(story) ==
    Story(story.id, OrElse(story.name, story.story, ""),
          story.parameters # None /\ Val(story.parameters).docsOnly)

\* obj[key] = value on an insertion-ordered object: an existing key keeps its
\* place, a new one goes last
PutStory(stories, v) ==
    IF \E k \in 1..Len(stories) : stories[k].id = v.id
    THEN [ k \in 1..Len(stories) |-> IF stories[k].id = v.id THEN v ELSE stories[k] ]
    ELSE Append(stories, v)

AddToGroup(groups, story) ==
    LET cid == ComponentIdOf(story)
        gs  == IF \E k \in 1..Len(groups) : groups[k].meta.id = cid
               THEN groups
               ELSE Append(groups, NewGroup(cid, story))
    IN  [ k \in 1..Len(gs) |->
            IF gs[k].meta.id = cid
            THEN [ gs[k] EXCEPT !.stories = Some(PutStory(Val(@), VariantOf(story))) ]
            ELSE gs[k] ]

\* the loop over Object.values(extracted), filling groupedByComponent
RECURSIVE GroupByComponent(_, _)
GroupByComponent(entries, groups) ==
    IF entries = <<>> THEN groups
    ELSE GroupByComponent(Tail(entries), AddToGroup(groups, Head(entries)))

\* the function evaluated in the page (page.evaluate), for a registry p that
\* is present
EvaluateStories(p) ==
    IF p.extract # None
    THEN Returned(GroupByComponent(Val(p.extract), <<>>))
    ELSE LET got == getStoryStore(p) IN
         IF got.threw THEN got
         ELSE LET store  == got.value
                  cached == IF store.cacheAllCSFFiles # None
                            THEN store.cacheAllCSFFiles
                            ELSE store.cachedCSFFiles
              IN  IF cached # None THEN Returned(Val(cached))
                  ELSE IF store.cache # None THEN Returned(Val(store.cache))
                  ELSE IF store.stories # None THEN Returned(Val(store.stories))
                  ELSE Threw(Error("Error",
                                   "Unable to find cached CSF files in Storybook store",
                                   Some(PreviewKeys(p)), Some(StoreKeys(store))))

----------------------------------------------------------------------------
(* Page-content extraction                                                 *)

\* a class token is a sequence of parts: <<"language-", "tsx">> is
\* language-tsx, <<"no", "language-", "x">> is nolanguage-x
ContainsLanguage(token) == \E k \in 1..Len(token) : token[k] = "language-"

\* cls.startsWith('language-')
StartsWithLanguage(token) == token # <<>> /\ Head(token) = "language-"

\* node.querySelector('[class*="language-"]'): the descendant's class
\* attribute holds the text language- somewhere
MatchesSelector(classList) == \E k \in 1..Len(classList) : ContainsLanguage(classList[k])

\* the first descendant the selector matches (there is one)
FirstMatching(descendants) ==
    descendants[CHOOSE n \in 1..Len(descendants) :
                    /\ MatchesSelector(descendants[n])
                    /\ \A m \in 1..(n - 1) : ~MatchesSelector(descendants[m])]

\* classNames.find(cls => cls.startsWith('language-')) (there is one)
FirstLanguageToken(classNames) ==
    classNames[CHOOSE n \in 1..Len(classNames) :
                   /\ StartsWithLanguage(classNames[n])
                   /\ \A m \in 1..(n - 1) : ~StartsWithLanguage(classNames[m])]

\* the codeBlock rule's language: of the first descendant the selector
\* matches, the first class token that starts with language-, without that
\* prefix
LanguageOf(descendants) ==
    IF \E k \in 1..Len(descendants) : MatchesSelector(descendants[k])
    THEN LET classNames == FirstMatching(descendants) IN
         IF \E n \in 1..Len(classNames) : StartsWithLanguage(classNames[n])
         THEN JoinStr(Tail(FirstLanguageToken(classNames)), "")
         ELSE ""
    ELSE ""

\* the fence marker, three backquotes
Fence == Tick \o Tick \o Tick

\* normalizedContent.startsWith(fence)
StartsWithFence(ts) == ts # <<>> /\ Head(ts) = Fence

\* the replacement of the codeBlock rule for a PRE element
codeBlock(el) ==
    IF StartsWithFence(TrimStart(el.content)) THEN Trim(el.content)
    ELSE Fence \o LanguageOf(el.descendants) \o "\n" \o Trim(el.content) \o "\n" \o Fence

\* one element of the fragment, as the rule set renders it
RenderElement(el) ==
    IF el.tag \in {"BUTTON", "STYLE", "SCRIPT", "IMG"} THEN ""
    ELSE IF el.tag = "PRE" THEN codeBlock(el)
    ELSE Trim(el.content)

\* convertHtmlToMarkdown: the blocks' renderings, separated by a blank line
convertHtmlToMarkdown(html) ==
    JoinStr(FilterNonEmpty([ k \in 1..Len(html) |-> RenderElement(html[k]) ]), "\n\n")

\* the awaited steps of extractMDXStoryContentWithBrowser, in order
ExtractSteps == <<"newPage", "route", "goto", "waitForSelector", "innerHTML">>

\* what a content extraction may meet: a failure at one step, or markup
ExtractOutcomes ==
    { [failAt |-> f, html |-> <<>>] : f \in Range(ExtractSteps) }
      \cup { [failAt |-> "none", html |-> h] : h \in PageHtmls }

\* a variant of the extraction that lets a failure escape to its caller
extractMDXWithoutCatch(o) ==
    IF o.failAt = "none"
    THEN [ threw |-> FALSE, value |-> Some(convertHtmlToMarkdown(o.html)), leaked |-> 0 ]
    ELSE [ threw |-> TRUE, value |-> None,
           leaked |-> IF o.failAt = "newPage" THEN 0 ELSE 1 ]

\* a variant of the extraction whose catch block returns nothing
extractMDXCatchReturnsUndefined(o) ==
    IF o.failAt = "none"
    THEN [ threw |-> FALSE, value |-> Some(convertHtmlToMarkdown(o.html)), leaked |-> 0 ]
    ELSE [ threw |-> FALSE, value |-> None,
           leaked |-> IF o.failAt = "newPage" THEN 0 ELSE 1 ]

\* extractMDXStoryContentWithBrowser under an outcome: whether it raises, the
\* string it resolves to, and the number of pages it leaves open
extractMDXStoryContentWithBrowser(o) ==
    IF o.failAt = "none"
    THEN [ threw |-> FALSE, value |-> Some(convertHtmlToMarkdown(o.html)), leaked |-> 0 ]
    ELSE [ threw |-> FALSE, value |-> Some(""),
           leaked |-> IF o.failAt = "newPage" THEN 0 ELSE 1 ]

----------------------------------------------------------------------------
(* extractStorybookData                                                    *)

TypeError(message) == Error("TypeError", message, None, None)

\* the registries of the sites a run may be pointed at
Previews ==
    {None}
      \cup { Some(p) : p \in UnknownPreviews }
      \cup { Some(p) : p \in MixedPreviews }
      \cup { Some(p) : p \in UNION { PreviewsOf(m, <<>>) \ {Preview(Some(<<>>), None, None, {"ready"})} :
                                        m \in SeqsUpTo(RegistryItems, MaxItems) } }
      \cup { Some(Preview(Some(f), None, None, {"ready"})) :
                f \in SeqsUpTo(FlatEntries, MaxItems) }

\* what a previous run left in <distPath>/llms
StaleFiles == { <<"stale", ".txt">>, <<"sitemap", ".xml">> }

RunInit ==
    /\ pc = "launch"
    /\ browser = "none"
    /\ context = "none"
    /\ openPages = 0
    /\ preview \in Previews
    /\ storeItems = <<>>
    /\ raw = <<>>
    /\ i = 1
    /\ j = 1
    /\ error = None
    /\ result = None
    /\ failedAt = {}
    /\ llmsFiles \in { {}, StaleFiles }
    /\ rootFiles = {}
    /\ written = <<>>

\* chromium.launch()
Launch ==
    /\ pc = "launch"
    /\ browser' = "open"
    /\ pc' = "newContext"
    /\ UNCHANGED <<context, openPages, preview, storeItems, raw, i, j, error,
                   result, failedAt, llmsFiles, rootFiles, written>>

\* browser.newContext({ bypassCSP: true }), before the try block is entered
NewContext ==
    /\ pc = "newContext"
    /\ \E ok \in BOOLEAN :
        IF ok
        THEN /\ context' = "open"
             /\ pc' = "extractAll"
             /\ error' = error
        ELSE /\ context' = context
             /\ pc' = "failed"
             /\ error' = Some(Error("Error", "browser.newContext failed", None, None))
    /\ UNCHANGED <<browser, openPages, preview, storeItems, raw, i, j,
                   result, failedAt, llmsFiles, rootFiles, written>>

\* extractAllStoriesFromStorybook up to its wait: open the entry page, set
\* up its routing and navigate to iframe.html
OpenEntryPage ==
    /\ pc = "extractAll"
    /\ \E nav \in {"ok", "newPage", "goto"} :
        IF nav = "newPage"
        THEN /\ error' = Some(Error("Error", "context.newPage failed", None, None))
             /\ pc' = "finally"
             /\ UNCHANGED openPages
        ELSE IF nav = "goto"
        THEN /\ error' = Some(Error("Error", "page.goto failed", None, None))
             /\ pc' = "finally"
             /\ openPages' = openPages + 1
        ELSE /\ pc' = "waitForFunction"
             /\ openPages' = openPages + 1
             /\ UNCHANGED error
    /\ UNCHANGED <<browser, context, preview, storeItems, raw, i, j, result, failedAt,
                   llmsFiles, rootFiles, written>>

\* a wait for the registry that has no timeout: it stays pending while the
\* registry is absent
waitForFunctionNoTimeout(p) ==
    IF p # None THEN "resolved" ELSE "pending"

\* page.waitForFunction(() => window.__STORYBOOK_PREVIEW__) with no timeout
\* option: it resolves once the registry is there and is rejected with a
\* TimeoutError when the default timeout passes without it
waitForFunction(p) ==
    IF p # None THEN "resolved" ELSE "timeout"

\* extractAllStoriesFromStorybook from its wait on: wait for the registry,
\* evaluate the lookup in the page, close the page
ExtractAllStories ==
    /\ pc = "waitForFunction"
    /\ waitForFunction(preview) # "pending"
    /\ IF waitForFunction(preview) = "timeout"
       THEN /\ error' = Some(Error("TimeoutError", "page.waitForFunction: Timeout exceeded",
                                   None, None))
            /\ pc' = "finally"
            /\ UNCHANGED <<openPages, preview, storeItems, raw>>
       ELSE LET got == EvaluateStories(Val(preview)) IN
            IF got.threw
            THEN /\ error' = Some(got.error)
                 /\ pc' = "finally"
                 /\ UNCHANGED <<openPages, preview, storeItems, raw>>
            ELSE /\ storeItems' = got.value
                 /\ raw' = got.value
                 /\ pc' = "enrich"
                 /\ openPages' = openPages - 1
                 /\ UNCHANGED <<error, preview>>
    /\ UNCHANGED <<browser, context, i, j, result, failedAt, llmsFiles, rootFiles, written>>

----------------------------------------------------------------------------
(* Document generators: per-item text                                      *)
(* A description is the sequence of its lines; a source text is a sequence *)
(* of tokens, of which " " and "\n" are white space.                       *)

\* the string whose lines are ls
Text(ls) == JoinStr(ls, "\n")

\* description.replace(/\n/g, ' ')
OneLine(ls) == JoinStr(ls, " ")

\* a docgen type descriptor: a plain string, or an object with an optional
\* name, an optional list of values and an optional element type
PlainType(str) ==
    [ isString |-> TRUE, str |-> str, name |-> None, values |-> None, elem |-> None ]

ObjectType(name, values, elem) ==
    [ isString |-> FALSE, str |-> "", name |-> name, values |-> values, elem |-> elem ]

\* arg.type ?? {}
EmptyObjectType == ObjectType(None, None, None)

\* JSON.stringify of a descriptor that has no name
JsonOf(type) ==
    IF type.values = None /\ type.elem = None THEN "{}" ELSE "{\"value\":[]}"

\* a variant that separates the values of an enum or union by ", "
RECURSIVE stringifyPropTypeWithCommas(_)
stringifyPropTypeWithCommas(type) ==
    IF type = None THEN ""
    ELSE LET t == Val(type) IN
         IF t.isString THEN t.str
         ELSE IF t.name # None
         THEN LET n == Val(t.name) IN
              IF n \in {"enum", "union"} /\ t.values # None
              THEN JoinStr([ k \in 1..Len(Val(t.values)) |-> Val(t.values)[k] ], ", ")
              ELSE IF n = "array" /\ t.elem # None
              THEN stringifyPropTypeWithCommas(t.elem) \o "[]"
              ELSE IF n = "signature" /\ t.values # None /\ Val(t.values) # <<>>
                      /\ Val(t.values)[1] = "function"
              THEN "function"
              ELSE n
         ELSE JsonOf(t)

\* stringifyPropType; type is None when the prop carries no type
RECURSIVE stringifyPropType(_)
stringifyPropType(type) ==
    IF type = None THEN ""
    ELSE LET t == Val(type) IN
         IF t.isString THEN t.str
         ELSE IF t.name # None
         THEN LET n == Val(t.name) IN
              IF n \in {"enum", "union"} /\ t.values # None
              THEN JoinStr([ k \in 1..Len(Val(t.values)) |-> Val(t.values)[k] ], " ")
              ELSE IF n = "array" /\ t.elem # None
              THEN stringifyPropType(t.elem) \o "[]"
              ELSE IF n = "signature" /\ t.values # None /\ Val(t.values) # <<>>
                      /\ Val(t.values)[1] = "function"
              THEN "function"
              ELSE n
         ELSE JsonOf(t)

\* extractStoryDescription: the component description, or undefined
extractStoryDescription(item) ==
    IF item.meta.description # None /\ Text(Val(item.meta.description)) # ""
    THEN item.meta.description
    ELSE None

\* one entry of docgen.props as extractComponentProps stores it
PropOf(arg) ==
    [ name         |-> arg.name,
      description  |-> IF arg.description # None /\ Text(Val(arg.description)) # ""
                       THEN Val(arg.description) ELSE <<"">>,
      type         |-> IF arg.type # None THEN arg.type ELSE Some(EmptyObjectType),
      defaultValue |-> IF arg.defaultValue # None THEN Val(arg.defaultValue) ELSE "",
      required     |-> arg.required # None /\ Val(arg.required) ]

RECURSIVE PropsOf(_)
PropsOf(args) ==
    IF args = <<>> THEN <<>>
    ELSE IF Head(args).name = "children" THEN PropsOf(Tail(args))
    ELSE <<PropOf(Head(args))>> \o PropsOf(Tail(args))

\* extractComponentProps; docgen is component?.__docgenInfo (None: undefined)
extractComponentProps(docgen) ==
    IF docgen = None \/ Val(docgen).props = None THEN <<>>
    ELSE PropsOf(Val(Val(docgen).props))

PropRow(prop) ==
    "| " \o JoinStr(<< Tick \o prop.name \o Tick,
                       Tick \o stringifyPropType(prop.type) \o Tick,
                       IF prop.required THEN "Yes" ELSE "No",
                       prop.defaultValue,
                       OneLine(prop.description) >>, " | ") \o " |"

generateComponentPropsTable(props) ==
    IF props = <<>> THEN <<>>
    ELSE << "",
            "| Name | Type | Required | Default | Description |",
            "|------|------|----------|---------|-------------|" >>
           \o [ k \in 1..Len(props) |-> PropRow(props[k]) ]
           \o << "" >>

\* stories.every(s => s.parameters?.docsOnly)
IsMDXPage(stories) == \A k \in 1..Len(stories) : stories[k].docsOnly

\* s.parameters?.fullSource ?? ''
FullSourceOf(story) == IF story.fullSource # None THEN Val(story.fullSource) ELSE ""

\* the section written for one subcomponent that carries doc metadata
SubcomponentSection(sub) ==
    IF sub.docgen = None THEN <<>>
    ELSE << "", "### " \o sub.name, "",
            IF Val(sub.docgen).description # None
            THEN Text(Val(Val(sub.docgen).description)) ELSE "",
            "" >>
         \o (LET props == extractComponentProps(sub.docgen) IN
             IF props # <<>>
             THEN << "#### Props", "" >> \o generateComponentPropsTable(props) \o << "" >>
             ELSE <<>>)

RECURSIVE SubcomponentSections(_)
SubcomponentSections(subs) ==
    IF subs = <<>> THEN <<>>
    ELSE SubcomponentSection(Head(subs)) \o SubcomponentSections(Tail(subs))

\* fullSource ?? docs.source.originalSource, as a token sequence
ExampleSource(story) ==
    IF story.fullSource # None THEN << Val(story.fullSource) >>
    ELSE IF story.originalSource # None THEN Val(story.originalSource)
    ELSE <<>>

ExampleSection(story) ==
    << "", "### " \o story.name, "" >>
      \o (IF story.description # None /\ Text(Val(story.description)) # ""
          THEN << Text(Val(story.description)), "" >> ELSE <<>>)
      \o (IF JoinStr(ExampleSource(story), "") # ""
          THEN << Fence \o "tsx", Trim(ExampleSource(story)), Fence >> ELSE <<>>)

RECURSIVE ExampleSections(_)
ExampleSections(stories) ==
    IF stories = <<>> THEN <<>>
    ELSE ExampleSection(Head(stories)) \o ExampleSections(Tail(stories))

\* generateFullFileContentFromStory: the array of strings it returns, or the
\* TypeError of Object.values(undefined)
generateFullFileContentFromStory(item) ==
    IF item.stories = None
    THEN Threw(TypeError("Cannot convert undefined or null to object"))
    ELSE LET stories == Val(item.stories) IN
         IF IsMDXPage(stories)
         THEN Returned(FilterNonEmpty([ k \in 1..Len(stories) |-> FullSourceOf(stories[k]) ]))
         ELSE LET description == extractStoryDescription(item)
                  props       == extractComponentProps(item.meta.component)
              IN  Returned(
                    << "# " \o item.meta.title, "" >>
                      \o (IF description # None
                          THEN << Text(Val(description)), "" >> ELSE <<>>)
                      \o (IF props # <<>>
                          THEN << "## Props", "" >> \o generateComponentPropsTable(props)
                                  \o << "" >>
                          ELSE <<>>)
                      \o (IF item.meta.subcomponents # None
                          THEN << "## Subcomponents", "" >>
                                  \o SubcomponentSections(Val(item.meta.subcomponents))
                          ELSE <<>>)
                      \o (IF stories # <<>>
                          THEN << "## Examples", "" >> \o ExampleSections(stories)
                          ELSE <<>>))

\* the file names writeFullDocsFiles gives an item
TxtFile(item) == item.meta.id \o <<".txt">>

HtmlFile(item) == item.meta.id \o <<".html">>

\* txtContent.join('\n'): the text written to llms/{id}.txt
TxtFileContent(lines) == JoinStr(lines, "\n")

----------------------------------------------------------------------------
(* extractStorybookData: the enrichment loop and the release of the browser *)

\* the pending exception leaves the try block through finally
Raise(e) ==
    /\ error' = Some(e)
    /\ pc' = "finally"

\* if (!item || !item.stories) continue
SkipInvalidItem ==
    /\ pc = "enrich"
    /\ i <= Len(storeItems)
    /\ storeItems[i].stories = None
    /\ i' = i + 1
    /\ UNCHANGED <<pc, browser, context, openPages, preview, storeItems, raw, j,
                   error, result, failedAt, llmsFiles, rootFiles, written>>

\* a variant of the test that takes every story for a prose page
IsProseAlways(story) == TRUE

\* if (story.parameters?.docsOnly)
IsProse(story) == story.docsOnly

\* one round of the loop over the item's stories
EnrichStory ==
    /\ pc = "enrich"
    /\ i <= Len(storeItems)
    /\ storeItems[i].stories # None
    /\ j <= Len(Val(storeItems[i].stories))
    /\ LET story == Val(storeItems[i].stories)[j] IN
       IF ~IsProse(story)
       THEN /\ j' = j + 1
            /\ UNCHANGED <<pc, error, storeItems, openPages, failedAt>>
       ELSE IF story.id = None
       THEN \* story.id.replace on undefined
            /\ Raise(TypeError("Cannot read properties of undefined (reading 'replace')"))
            /\ UNCHANGED <<j, storeItems, openPages, failedAt>>
       ELSE \E o \in ExtractOutcomes :
            LET got == extractMDXStoryContentWithBrowser(o) IN
            IF got.threw
            THEN /\ Raise(Error("Error", "content extraction failed", None, None))
                 /\ openPages' = openPages + got.leaked
                 /\ failedAt' = failedAt \cup {<<i, j>>}
                 /\ UNCHANGED <<j, storeItems>>
            ELSE /\ storeItems' =
                        [ storeItems EXCEPT ![i].stories =
                            Some([ Val(@) EXCEPT ![j].fullSource = got.value ]) ]
                 /\ openPages' = openPages + got.leaked
                 /\ failedAt' = IF o.failAt = "none" THEN failedAt
                                ELSE failedAt \cup {<<i, j>>}
                 /\ j' = j + 1
                 /\ UNCHANGED <<pc, error>>
    /\ UNCHANGED <<browser, context, preview, raw, i, result, llmsFiles, rootFiles, written>>

\* the loop over a non-empty stories collection is over
NextItem ==
    /\ pc = "enrich"
    /\ i <= Len(storeItems)
    /\ storeItems[i].stories # None
    /\ Len(Val(storeItems[i].stories)) > 0
    /\ j > Len(Val(storeItems[i].stories))
    /\ i' = i + 1
    /\ j' = 1
    /\ UNCHANGED <<pc, browser, context, openPages, preview, storeItems, raw,
                   error, result, failedAt, llmsFiles, rootFiles, written>>

\* the variant added to an item whose stories collection is empty
SyntheticStory(item, fullSource) ==
    [ Story(Some(item.meta.id), item.meta.title, TRUE) EXCEPT !.fullSource = fullSource ]

\* else if (item.meta.parameters.fileName.endsWith('.mdx')) { ... }
EmptyStories ==
    /\ pc = "enrich"
    /\ i <= Len(storeItems)
    /\ storeItems[i].stories = Some(<<>>)
    /\ LET item == storeItems[i] IN
       IF item.meta.fileName = None
       THEN \* fileName.endsWith on undefined
            /\ Raise(TypeError("Cannot read properties of undefined (reading 'endsWith')"))
            /\ UNCHANGED <<i, storeItems, openPages, failedAt>>
       ELSE IF ~EndsWith(Val(item.meta.fileName), <<".mdx">>)
       THEN /\ i' = i + 1
            /\ UNCHANGED <<pc, error, storeItems, openPages, failedAt>>
       ELSE \E o \in ExtractOutcomes :
            LET got == extractMDXStoryContentWithBrowser(o) IN
            IF got.threw
            THEN /\ Raise(Error("Error", "content extraction failed", None, None))
                 /\ openPages' = openPages + got.leaked
                 /\ failedAt' = failedAt \cup {<<i, 1>>}
                 /\ UNCHANGED <<i, storeItems>>
            ELSE /\ storeItems' =
                        [ storeItems EXCEPT ![i].stories =
                            Some(PutStory(Val(@), SyntheticStory(item, got.value))) ]
                 /\ openPages' = openPages + got.leaked
                 /\ failedAt' = IF o.failAt = "none" THEN failedAt
                                ELSE failedAt \cup {<<i, 1>>}
                 /\ i' = i + 1
                 /\ UNCHANGED <<pc, error>>
    /\ UNCHANGED <<browser, context, preview, raw, j, result, llmsFiles, rootFiles, written>>

\* return storeItems
ReturnItems ==
    /\ pc = "enrich"
    /\ i > Len(storeItems)
    /\ result' = Some(storeItems)
    /\ pc' = "finally"
    /\ UNCHANGED <<browser, context, openPages, preview, storeItems, raw, i, j,
                   error, failedAt, llmsFiles, rootFiles, written>>

\* a variant of the finally block that swallows the pending exception and
\* hands out what has been collected so far
FinallyReturnsPartial ==
    /\ pc = "finally"
    /\ browser' = "closed"
    /\ context' = "closed"
    /\ openPages' = 0
    /\ preview' = None
    /\ pc' = "returned"
    /\ result' = Some(storeItems)
    /\ UNCHANGED <<storeItems, raw, i, j, error, failedAt, llmsFiles,
                   rootFiles, written>>

\* finally { if (browser) await browser.close() }
Finally ==
    /\ pc = "finally"
    /\ browser' = "closed"
    /\ context' = "closed"
    /\ openPages' = 0
    /\ preview' = None
    /\ pc' = IF error = None THEN "returned" ELSE "failed"
    /\ UNCHANGED <<storeItems, raw, i, j, error, result, failedAt, llmsFiles,
                   rootFiles, written>>

----------------------------------------------------------------------------
(* The file writers, called in turn by the command line entry point with   *)
(* the collection extractStorybookData returned                            *)

\* the order in which the entry point calls the writers (spec section 4.6)
CliNext(at) ==
    CASE at = "returned"        -> "writeSummaryFile"
      [] at = "writeSummaryFile" -> "writeFullDocsFiles"
      [] at = "writeFullDocsFiles" -> "writeAdditionalFiles"
      [] OTHER                  -> "done"

\* the entry point hands the returned collection to the first writer
CliStart ==
    /\ pc = "returned"
    /\ pc' = CliNext("returned")
    /\ UNCHANGED <<browser, context, openPages, preview, storeItems, raw, i, j,
                   error, result, failedAt, llmsFiles, rootFiles, written>>

\* writeSummaryFile: <distPath>/llms.txt
WriteSummaryFile ==
    /\ pc = "writeSummaryFile"
    /\ rootFiles' = rootFiles \cup {<<"llms", ".txt">>}
    /\ pc' = CliNext("writeSummaryFile")
    /\ UNCHANGED <<browser, context, openPages, preview, storeItems, raw, i, j,
                   error, result, failedAt, llmsFiles, written>>

\* writeFullDocsFiles: rm -rf llms, mkdir llms
CleanLlmsDir ==
    /\ pc = "writeFullDocsFiles"
    /\ llmsFiles' = {}
    /\ i' = 1
    /\ pc' = "writeItems"
    /\ UNCHANGED <<browser, context, openPages, preview, storeItems, raw, j,
                   error, result, failedAt, rootFiles, written>>

\* one round of writeFullDocsFiles' loop: the .txt file, then the .html file
WriteItemFiles ==
    /\ pc = "writeItems"
    /\ i <= Len(Val(result))
    /\ LET item == Val(result)[i]
           txt  == generateFullFileContentFromStory(item)
       IN  IF txt.threw
           THEN /\ error' = Some(txt.error)
                /\ pc' = "writeFailed"
                /\ UNCHANGED <<i, llmsFiles, written>>
           ELSE /\ llmsFiles' = llmsFiles \cup {TxtFile(item), HtmlFile(item)}
                /\ written' = written \o << [item |-> i, file |-> TxtFile(item)],
                                            [item |-> i, file |-> HtmlFile(item)] >>
                /\ i' = i + 1
                /\ UNCHANGED <<pc, error>>
    /\ UNCHANGED <<browser, context, openPages, preview, storeItems, raw, j,
                   result, failedAt, rootFiles>>

\* writeFullDocsFiles returns
WriteItemsDone ==
    /\ pc = "writeItems"
    /\ i > Len(Val(result))
    /\ pc' = CliNext("writeFullDocsFiles")
    /\ UNCHANGED <<browser, context, openPages, preview, storeItems, raw, i, j,
                   error, result, failedAt, llmsFiles, rootFiles, written>>

\* writeAdditionalFiles: writeSummaryHtmlFile (mkdir llms, llms/index.html)
WriteSummaryHtmlFile ==
    /\ pc = "writeAdditionalFiles"
    /\ llmsFiles' = llmsFiles \cup {<<"index", ".html">>}
    /\ pc' = "writeSitemapFile"
    /\ UNCHANGED <<browser, context, openPages, preview, storeItems, raw, i, j,
                   error, result, failedAt, rootFiles, written>>

\* writeAdditionalFiles: writeSitemapFile (llms/sitemap.xml)
WriteSitemapFile ==
    /\ pc = "writeSitemapFile"
    /\ llmsFiles' = llmsFiles \cup {<<"sitemap", ".xml">>}
    /\ pc' = CliNext("writeAdditionalFiles")
    /\ UNCHANGED <<browser, context, openPages, preview, storeItems, raw, i, j,
                   error, result, failedAt, rootFiles, written>>

----------------------------------------------------------------------------
(* Static asset resolver (setupStaticRouting)                              *)
(* A path string is a sequence of characters; "/" separates its segments.  *)
(* "index" and "html" are written as one character each.                   *)

\* longest request path, in segments
MaxSegs == 3

\* the segments a request URL is made of: empty (a doubled slash), "..",
\* directory names and file names
UrlSegments ==
    { <<>>, <<".", ".">>, <<"s">>, <<"s", "e">>, <<"d">>, <<"f", ".", "x">>,
      <<"f", ".", "j", "s">> }

\* the working directory of the process
Cwd == <<"w">>

\* path.normalize on a list of segments: drops "" and ".", resolves ".."
RECURSIVE NormalizeSegs(_, _)
NormalizeSegs(segs, acc) ==
    IF segs = <<>> THEN acc
    ELSE LET h == Head(segs) IN
         IF h = <<>> \/ h = <<".">> THEN NormalizeSegs(Tail(segs), acc)
         ELSE IF h = <<".", ".">>
         THEN NormalizeSegs(Tail(segs),
                            IF acc = <<>> THEN acc ELSE SubSeq(acc, 1, Len(acc) - 1))
         ELSE NormalizeSegs(Tail(segs), Append(acc, h))

\* the string of an absolute path with the given segments
RECURSIVE AbsString(_)
AbsString(segs) ==
    IF segs = <<>> THEN <<>>
    ELSE <<"/">> \o Head(segs) \o AbsString(Tail(segs))

\* new URL(url).pathname for the raw segments of a request: the URL parser
\* removes "." and resolves ".." and keeps empty segments
RECURSIVE UrlPath(_, _)
UrlPath(segs, acc) ==
    IF segs = <<>> THEN acc
    ELSE LET h == Head(segs) IN
         IF h = <<".">> THEN UrlPath(Tail(segs), acc)
         ELSE IF h = <<".", ".">>
         THEN UrlPath(Tail(segs),
                      IF acc = <<>> THEN acc ELSE SubSeq(acc, 1, Len(acc) - 1))
         ELSE UrlPath(Tail(segs), Append(acc, h))

\* the path of a parsed URL always has a segment ("/" is one empty segment),
\* and a "." or ".." in last place leaves an empty last segment
UrlPathname(segs) ==
    LET path == UrlPath(segs, <<>>) IN
    IF path = <<>> THEN << <<>> >>
    ELSE IF segs[Len(segs)] \in { <<".">>, <<".", ".">> } THEN Append(path, <<>>)
    ELSE path

\* the segments of filePath once the first "/" of the pathname is removed
\* (filePath.substring(1)): segments of "a/b" are <<a, b>>, and a pathname
\* "//a" leaves the absolute path "/a"
StripLeadingSlash(pathSegs) ==
    [ abs  |-> pathSegs # <<>> /\ Head(pathSegs) = <<>> /\ Len(pathSegs) > 1,
      segs |-> pathSegs ]

LastDot(seg) ==
    IF \E k \in 1..Len(seg) : seg[k] = "."
    THEN CHOOSE k \in 1..Len(seg) :
            seg[k] = "." /\ \A m \in (k + 1)..Len(seg) : seg[m] # "."
    ELSE 0

\* path.extname: the extension of the last non-empty segment
extname(segs) ==
    LET real == SelectSeq(segs, LAMBDA x : x # <<>>) IN
    IF real = <<>> THEN <<>>
    ELSE LET base == real[Len(real)]
             dot  == LastDot(base)
         IN  IF dot <= 1 \/ base = <<".", ".">> THEN <<>>
             ELSE SubSeq(base, dot, Len(base))

\* path.resolve(distPath): distPath against the working directory
ResolveRoot(dist) ==
    NormalizeSegs(IF dist.abs THEN dist.segs ELSE <<Cwd>> \o dist.segs, <<>>)

\* path.resolve(distPath, filePath)
ResolveFile(dist, file) ==
    IF file.abs THEN NormalizeSegs(file.segs, <<>>)
    ELSE NormalizeSegs(ResolveRoot(dist) \o file.segs, <<>>)

\* fullPath for the pathname segments of a request
FullPathOf(dist, pathSegs) ==
    LET stripped == StripLeadingSlash(pathSegs)
        file     == IF extname(stripped.segs) = <<>>
                    THEN [ stripped EXCEPT !.segs = @ \o << <<"index", ".", "html">> >> ]
                    ELSE stripped
    IN  ResolveFile(dist, file)

\* the security check of the handler: fullPath.startsWith(resolve(distPath))
WithinDistPath(full, dist) == StartsWith(AbsString(full), AbsString(ResolveRoot(dist)))

\* getContentType
getContentType(ext) ==
    CASE ext = <<".", "html">>               -> "text/html"
      [] ext = <<".", "j", "s">>             -> "application/javascript"
      [] ext = <<".", "c", "s", "s">>        -> "text/css"
      [] ext = <<".", "j", "s", "o", "n">>   -> "application/json"
      [] ext = <<".", "p", "n", "g">>        -> "image/png"
      [] ext = <<".", "j", "p", "g">>        -> "image/jpeg"
      [] ext = <<".", "j", "p", "e", "g">>   -> "image/jpeg"
      [] ext = <<".", "g", "i", "f">>        -> "image/gif"
      [] ext = <<".", "s", "v", "g">>        -> "image/svg+xml"
      [] ext = <<".", "i", "c", "o">>        -> "image/x-icon"
      [] ext = <<".", "w", "o", "f", "f">>   -> "font/woff"
      [] ext = <<".", "w", "o", "f", "f", "2">> -> "font/woff2"
      [] ext = <<".", "t", "t", "f">>        -> "font/ttf"
      [] ext = <<".", "e", "o", "t">>        -> "application/vnd.ms-fontobject"
      [] OTHER                               -> "application/octet-stream"

\* the files of the machine: inside the roots, beside them and elsewhere
DiskFiles ==
    { << <<"s">>, <<"f", ".", "x">> >>,
      << <<"s">>, <<"f", ".", "j", "s">> >>,
      << <<"s">>, <<"index", ".", "html">> >>,
      << <<"s">>, <<"d">>, <<"index", ".", "html">> >>,
      << <<"s">>, <<"d">>, <<"f", ".", "x">> >>,
      << <<"s", "e">>, <<"f", ".", "x">> >>,
      << <<"s", "e">>, <<"index", ".", "html">> >>,
      << <<"d">>, <<"f", ".", "x">> >>,
      << <<"w">>, <<"s">>, <<"f", ".", "x">> >>,
      << <<"w">>, <<"s", "e">>, <<"f", ".", "x">> >> }

DistPaths ==
    { [abs |-> TRUE,  segs |-> << <<"s">> >>],
      [abs |-> TRUE,  segs |-> << <<"s">>, <<>> >>],
      [abs |-> TRUE,  segs |-> << <<"s">>, <<"d">> >>],
      [abs |-> FALSE, segs |-> << <<"s">> >>] }

RouteInit ==
    /\ distPath \in DistPaths
    /\ disk = DiskFiles
    /\ unreadable \in SUBSET { << <<"s">>, <<"f", ".", "j", "s">> >> }
    /\ request = None
    /\ response = None
    /\ readLog = {}

\* the browser issues a request; its URL is parsed (each request is handled
\* on its own: the handler keeps nothing from one request to the next)
IssueRequest ==
    /\ request = None
    /\ \E url \in SeqsUpTo(UrlSegments, MaxSegs) :
          request' = Some(UrlPathname(url))
    /\ response' = None
    /\ UNCHANGED <<distPath, disk, unreadable, readLog>>

\* the route handler answers the request
HandleRoute ==
    /\ request # None
    /\ response = None
    /\ LET full == FullPathOf(distPath, Val(request)) IN
       IF full \in disk /\ WithinDistPath(full, distPath)
       THEN /\ readLog' = readLog \cup {full}
            /\ response' =
                 IF full \in unreadable
                 THEN Some([status |-> 500, contentType |-> "", body |-> <<>>])
                 ELSE Some([status |-> 200,
                            contentType |-> getContentType(extname(full)),
                            body |-> full])
       ELSE /\ readLog' = readLog
            /\ response' = Some([status |-> 404, contentType |-> "", body |-> <<>>])
    /\ UNCHANGED <<distPath, disk, unreadable, request>>

----------------------------------------------------------------------------
(* Per-item text of one item (the body of writeFullDocsFiles' loop)        *)

\* most story variants of an item handed to the generator
MaxVariants == 2

GenDescriptions == { None, Some(<<"">>), Some(<<"D">>), Some(<<"D1", "D2">>) }

GenProp(name, type) ==
    [ name |-> name, description |-> None, type |-> type,
      defaultValue |-> None, required |-> None ]

Docgen(description, props) == [ description |-> description, props |-> props ]

\* component.__docgenInfo: absent, without props, with props
GenDocgens ==
    { None,
      Some(Docgen(None, None)),
      Some(Docgen(None, Some(<<>>))),
      Some(Docgen(None, Some(<< GenProp("children", None) >>))),
      Some(Docgen(Some(<<"S">>),
                  Some(<< GenProp("size", Some(PlainType("string"))) >>))) }

\* meta.subcomponents: absent, an empty mapping, one subcomponent
GenSubcomponents ==
    { None, Some(<<>>) }
      \cup { Some(<< [name |-> "Sub", docgen |-> d] >>) :
                d \in { None, Some(Docgen(None, None)) } }

\* story variants: prose variants with every kind of fullSource, and examples
GenStoryKinds ==
    { [ docsOnly |-> TRUE, fullSource |-> fs, originalSource |-> None ] :
          fs \in { None, Some(""), Some("A"), Some("B\nC") } }
      \cup { [ docsOnly |-> FALSE, fullSource |-> None, originalSource |-> src ] :
                src \in { None, Some(<<"\n", "<Button />", " ">>) } }

\* the k-th variant of an item, of the given kind
GenStory(k, kind) ==
    [ Story(Some(<<"a", "--", StoryNames[k]>>), "Story " \o StoryNames[k], kind.docsOnly)
        EXCEPT !.fullSource = kind.fullSource, !.originalSource = kind.originalSource ]

GenStoryLists ==
    { [ k \in 1..Len(kinds) |-> GenStory(k, kinds[k]) ] :
          kinds \in SeqsUpTo(GenStoryKinds, MaxVariants) }

GenItems ==
    { [ meta    |-> [ Meta(<<"a">>, "T", Some(TsxFile)) EXCEPT
                        !.description = d, !.component = c, !.subcomponents = sc ],
        stories |-> Some(st) ] :
        d \in GenDescriptions, c \in GenDocgens, sc \in GenSubcomponents,
        st \in GenStoryLists }

GenInit ==
    /\ genItem \in GenItems
    /\ genOut = None

\* const txtContent = generateFullFileContentFromStory(item);
\* await writeFile(txtFilePath, txtContent.join('\n'));
GenWriteTxt ==
    /\ genOut = None
    /\ LET txt == generateFullFileContentFromStory(genItem) IN
       genOut' = IF txt.threw THEN Some([threw |-> TRUE, lines |-> <<>>, text |-> ""])
                 ELSE Some([threw |-> FALSE, lines |-> txt.value,
                            text |-> TxtFileContent(txt.value)])
    /\ UNCHANGED genItem

----------------------------------------------------------------------------
(* Summary text (generateSummaryContent)                                   *)
(* A ref's url is a sequence of tokens, of which "/" is the slash.         *)

\* the run configuration handed to the generators
Args(summaryTitle, summaryDescription, summaryBaseUrl, refs) ==
    [ summaryTitle       |-> summaryTitle,
      summaryDescription |-> summaryDescription,
      summaryBaseUrl     |-> summaryBaseUrl,
      refs               |-> refs ]

Ref(title, url) == [ title |-> title, url |-> url ]

SummaryNote ==
    "> **Note:** This is a summary overview using the LLMs.txt format (https://llmstxt.org/). Each section links to its full documentation file in plain text (.txt) format. Click any link below to view the detailed documentation for that section."

\* ref.url.replace(/\/$/, ''): one trailing slash is removed
StripTrailingSlash(url) ==
    IF url # <<>> /\ url[Len(url)] = "/"
    THEN JoinStr(SubSeq(url, 1, Len(url) - 1), "")
    ELSE JoinStr(url, "")

\* the suffix of an item's bullet: ": " and the first line of the component
\* description, when the description is not empty
SummaryDescription(item) ==
    IF item.meta.description # None /\ Text(Val(item.meta.description)) # ""
    THEN ": " \o Val(item.meta.description)[1]
    ELSE ""

SummaryBullet(args, item) ==
    "- [" \o item.meta.title \o "](" \o args.summaryBaseUrl \o "/llms/"
          \o JoinStr(item.meta.id, "") \o ".html)" \o SummaryDescription(item)

RefBullet(ref) ==
    "- [" \o ref.title \o "](" \o StripTrailingSlash(ref.url) \o "/llms.txt)"

\* a variant that appends the whole description to the bullet
generateSummaryWithWholeDescription(args, data) ==
    << "# " \o args.summaryTitle, "", SummaryNote, "", args.summaryDescription, "" >>
      \o [ k \in 1..Len(data) |->
             "- [" \o data[k].meta.title \o "](" \o args.summaryBaseUrl \o "/llms/"
                   \o JoinStr(data[k].meta.id, "") \o ".html)"
                   \o (IF data[k].meta.description # None
                          /\ Text(Val(data[k].meta.description)) # ""
                       THEN ": " \o Text(Val(data[k].meta.description)) ELSE "") ]
      \o (IF args.refs # None /\ Val(args.refs) # <<>>
          THEN << "", "## Optional", "" >>
                 \o [ k \in 1..Len(Val(args.refs)) |-> RefBullet(Val(args.refs)[k]) ]
                 \o << "" >>
          ELSE <<>>)

\* generateSummaryContent: the lines of llms.txt
generateSummaryContent(args, data) ==
    << "# " \o args.summaryTitle, "", SummaryNote, "", args.summaryDescription, "" >>
      \o [ k \in 1..Len(data) |-> SummaryBullet(args, data[k]) ]
      \o (IF args.refs # None /\ Val(args.refs) # <<>>
          THEN << "", "## Optional", "" >>
                 \o [ k \in 1..Len(Val(args.refs)) |-> RefBullet(Val(args.refs)[k]) ]
                 \o << "" >>
          ELSE <<>>)

\* configurations: base urls with and without a path, refs absent, empty,
\* and with urls that end in a slash or not
SummaryRefs ==
    { None, Some(<<>>),
      Some(<< Ref("R", <<"https://r">>) >>),
      Some(<< Ref("R", <<"https://r", "/">>) >>),
      Some(<< Ref("R", <<"https://r">>), Ref("Q", <<"https://q", "/", "/">>) >>) }

SummaryArgs ==
    { Args("Summary", d, b, r) : d \in {"", "About"}, b \in {"", "https://x"},
                                 r \in SummaryRefs }

\* an item as the summary reads it: id, title and component description
SummaryItem(id, d) ==
    [ Item(Meta(id, "T", Some(TsxFile)), None) EXCEPT !.meta.description = d ]

\* items without a description, with an empty one, with one of one line, of
\* two lines, and with one whose first line is empty
SummaryItems ==
    { SummaryItem(<<"a">>, None),
      SummaryItem(<<"a">>, Some(<<"">>)),
      SummaryItem(<<"a">>, Some(<<"D">>)),
      SummaryItem(<<"b", "-", "c">>, Some(<<"D1", "D2">>)),
      SummaryItem(<<"b", "-", "c">>, Some(<<"", "D">>)) }

SummaryCalls ==
    { [ fn |-> "generateSummaryContent", args |-> a, data |-> d ] :
        a \in SummaryArgs, d \in SeqsUpTo(SummaryItems, MaxItems) }

ApplySummary ==
    /\ call # None
    /\ Val(call).fn = "generateSummaryContent"
    /\ returned = None
    /\ returned' = Some(generateSummaryContent(Val(call).args, Val(call).data))
    /\ UNCHANGED call

----------------------------------------------------------------------------
(* Props table of a component (extractComponentProps,                      *)
(* generateComponentPropsTable)                                            *)

\* deepest nesting of array descriptors
MaxTypeDepth == 2

\* type descriptors that are not arrays of something
BaseTypes ==
    { PlainType("string"),
      ObjectType(Some("enum"), Some(<<"a", "b">>), None),
      ObjectType(Some("enum"), Some(<<>>), None),
      ObjectType(Some("enum"), None, None),
      ObjectType(Some("union"), Some(<<"x", "1">>), None),
      ObjectType(Some("array"), None, None),
      ObjectType(Some("signature"), Some(<<"function">>), None),
      ObjectType(Some("signature"), Some(<<"object">>), None),
      ObjectType(Some("signature"), None, None),
      ObjectType(Some("number"), None, None),
      ObjectType(None, None, None),
      ObjectType(None, Some(<<>>), None) }

\* descriptors with arrays nested at most d deep
RECURSIVE TypesUpTo(_)
TypesUpTo(d) ==
    IF d = 0 THEN BaseTypes
    ELSE BaseTypes \cup { ObjectType(Some("array"), None, Some(t)) : t \in TypesUpTo(d - 1) }

\* the entries of docgen.props
DocgenProps ==
    { [ name |-> n, description |-> d, type |-> t, defaultValue |-> dv, required |-> r ] :
        n  \in { "variant" },
        d  \in { None, Some(<<"D1", "D2">>) },
        t  \in {None} \cup { Some(x) : x \in TypesUpTo(MaxTypeDepth) },
        dv \in { None, Some("a") },
        r  \in { None, Some(TRUE), Some(FALSE) } }

\* component.__docgenInfo with one prop, alone or after children
PropsCalls ==
    { [ fn |-> "generateComponentPropsTable", docgen |-> Some(Docgen(None, Some(ps))) ] :
        ps \in { <<p>> : p \in DocgenProps }
                 \cup { << GenProp("children", None), p >> : p \in DocgenProps } }

\* the props of a component and their table
ApplyPropsTable ==
    /\ call # None
    /\ Val(call).fn = "generateComponentPropsTable"
    /\ returned = None
    /\ LET props == extractComponentProps(Val(call).docgen) IN
       returned' = Some([ props |-> props, table |-> generateComponentPropsTable(props) ])
    /\ UNCHANGED call

----------------------------------------------------------------------------
(* Code blocks handed to convertHtmlToMarkdown                             *)

\* most descendants of a PRE element that carry a class attribute
MaxDescendants == 2

\* class attributes: none, a language, a language after another token, and
\* tokens that hold language- without starting with it
ClassLists ==
    { <<>>,
      << <<"language-", "tsx">> >>,
      << <<"hljs">>, <<"language-", "js">> >>,
      << <<"hljs">> >>,
      << <<"no", "language-", "x">> >>,
      << <<"no", "language-", "x">>, <<"language-", "tsx">> >> }

\* inner contents: bare, surrounded by white space, and already fenced
PreContents ==
    { <<"const x = 1;">>,
      <<"\n", " ", "const x = 1;", "\n">>,
      <<Fence, "js", "\n", "x", "\n", Fence>>,
      <<" ", Fence, "\n", "x", "\n", Fence, "\n">> }

MarkdownCalls ==
    { [ fn |-> "convertHtmlToMarkdown", html |-> << Element("PRE", d, c) >> ] :
        d \in SeqsUpTo(ClassLists, MaxDescendants), c \in PreContents }

ApplyMarkdown ==
    /\ call # None
    /\ Val(call).fn = "convertHtmlToMarkdown"
    /\ returned = None
    /\ returned' = Some(convertHtmlToMarkdown(Val(call).html))
    /\ UNCHANGED call

----------------------------------------------------------------------------
(* Specifications                                                          *)

RunIdle ==
    /\ pc = "idle"
    /\ browser = "none"
    /\ context = "none"
    /\ openPages = 0
    /\ preview = None
    /\ storeItems = <<>>
    /\ raw = <<>>
    /\ i = 1
    /\ j = 1
    /\ error = None
    /\ result = None
    /\ failedAt = {}
    /\ llmsFiles = {}
    /\ rootFiles = {}
    /\ written = <<>>

RouteIdle ==
    /\ distPath = [abs |-> TRUE, segs |-> << <<"s">> >>]
    /\ disk = {}
    /\ unreadable = {}
    /\ request = None
    /\ response = None
    /\ readLog = {}

GenIdle ==
    /\ genItem = None
    /\ genOut = None

PureIdle ==
    /\ call = None
    /\ returned = None

Init == RunInit /\ RouteIdle /\ GenIdle /\ PureIdle

Next ==
    \/ Launch /\ UNCHANGED <<routeVars, genVars, pureVars>>
    \/ NewContext /\ UNCHANGED <<routeVars, genVars, pureVars>>
    \/ OpenEntryPage /\ UNCHANGED <<routeVars, genVars, pureVars>>
    \/ ExtractAllStories /\ UNCHANGED <<routeVars, genVars, pureVars>>
    \/ SkipInvalidItem /\ UNCHANGED <<routeVars, genVars, pureVars>>
    \/ EnrichStory /\ UNCHANGED <<routeVars, genVars, pureVars>>
    \/ NextItem /\ UNCHANGED <<routeVars, genVars, pureVars>>
    \/ EmptyStories /\ UNCHANGED <<routeVars, genVars, pureVars>>
    \/ ReturnItems /\ UNCHANGED <<routeVars, genVars, pureVars>>
    \/ Finally /\ UNCHANGED <<routeVars, genVars, pureVars>>
    \/ CliStart /\ UNCHANGED <<routeVars, genVars, pureVars>>
    \/ WriteSummaryFile /\ UNCHANGED <<routeVars, genVars, pureVars>>
    \/ CleanLlmsDir /\ UNCHANGED <<routeVars, genVars, pureVars>>
    \/ WriteItemFiles /\ UNCHANGED <<routeVars, genVars, pureVars>>
    \/ WriteItemsDone /\ UNCHANGED <<routeVars, genVars, pureVars>>
    \/ WriteSummaryHtmlFile /\ UNCHANGED <<routeVars, genVars, pureVars>>
    \/ WriteSitemapFile /\ UNCHANGED <<routeVars, genVars, pureVars>>

Spec == Init /\ [][Next]_vars

\* the sites a run that waits for the registry is pointed at: without a
\* registry, with one of unknown or mixed shape, and with one item or entry
WaitPreviews ==
    {None}
      \cup { Some(p) : p \in UnknownPreviews \cup MixedPreviews }
      \cup { Some(p) : p \in UNION { PreviewsOf(<<it>>, <<e>>) :
                                        it \in RegistryItems, e \in FlatEntries } }

FairInit == Init /\ preview \in WaitPreviews

\* the run under a scheduler that lets every enabled step be taken: an
\* awaited call that settles resumes the function that awaits it
SpecFair == FairInit /\ [][Next]_vars /\ WF_vars(Next)

RouteSpecInit == RouteInit /\ RunIdle /\ GenIdle /\ PureIdle

RouteNext ==
    \/ IssueRequest /\ UNCHANGED <<runVars, genVars, pureVars>>
    \/ HandleRoute /\ UNCHANGED <<runVars, genVars, pureVars>>

SpecRoute == RouteSpecInit /\ [][RouteNext]_vars

GenSpecInit == GenInit /\ RunIdle /\ RouteIdle /\ PureIdle

GenNext == GenWriteTxt /\ UNCHANGED <<runVars, routeVars, pureVars>>

SpecGen == GenSpecInit /\ [][GenNext]_vars

PureCalls == SummaryCalls \cup PropsCalls \cup MarkdownCalls

PureInit ==
    /\ call \in { Some(c) : c \in PureCalls }
    /\ returned = None

PureSpecInit == PureInit /\ RunIdle /\ RouteIdle /\ GenIdle

PureNext ==
    \/ ApplySummary /\ UNCHANGED <<runVars, routeVars, genVars>>
    \/ ApplyPropsTable /\ UNCHANGED <<runVars, routeVars, genVars>>
    \/ ApplyMarkdown /\ UNCHANGED <<runVars, routeVars, genVars>>

SpecPure == PureSpecInit /\ [][PureNext]_vars

----------------------------------------------------------------------------
(* Claims                                                                  *)

\* a resolved path stays under the site root: the root's segments lead it
UnderRoot(full, dist) == StartsWith(full, ResolveRoot(dist))

\* C1: a request whose resolved path does not stay under the site root is
\* answered 404, and no file outside the site root is ever read.
C1_OutsideRootRejected ==
    /\ \A f \in readLog : UnderRoot(f, distPath)
    /\ (request # None /\ response # None
          /\ ~UnderRoot(FullPathOf(distPath, Val(request)), distPath))
        => Val(response).status = 404

\* C2: once the browser has been launched, every exit of the run (return or
\* exception, the creation of the context included) leaves it closed.
C2_BrowserClosedOnExit ==
    pc \notin {"idle", "launch", "newContext", "extractAll", "waitForFunction", "enrich",
            "finally"}
        => browser = "closed"

\* C3: a failed content extraction raises nothing: it yields the empty string
\* for its variant and the loop moves on to the next variant or item; a run
\* that returns has gone through every item and returns the whole collection.
C3_ExtractionFailureIsLocal ==
    [][ /\ failedAt' # failedAt =>
            /\ pc' = "enrich"
            /\ error' = None
            /\ Len(storeItems') = Len(storeItems)
            /\ \A pos \in failedAt' \ failedAt :
                  /\ Val(storeItems'[pos[1]].stories)[pos[2]].fullSource = Some("")
                  /\ \/ (i' = i /\ j' = pos[2] + 1)
                     \/ (i' = pos[1] + 1 /\ j' = j)
        /\ (pc = "finally" /\ pc' = "returned") =>
            /\ result' = Some(storeItems')
            /\ Len(storeItems') = Len(raw')
            /\ i' = Len(raw') + 1 ]_vars

\* C3 witness: a run returned both items although the content extraction of
\* the first one had failed
C3_Witness ==
    /\ pc = "returned"
    /\ \E pos \in failedAt : pos[1] = 1
    /\ Len(Val(result)) = 2
    /\ Val(result)[2].stories # None
    /\ \E k \in 1..Len(Val(Val(result)[2].stories)) :
          Val(Val(result)[2].stories)[k].fullSource = Some("A")

\* the registry exposes none of the known shapes
NoKnownShape(p) ==
    /\ p.extract = None
    /\ \/ (p.storyStore = None /\ p.storyStoreValue = None)
       \/ LET st == Val(IF p.storyStore # None THEN p.storyStore ELSE p.storyStoreValue)
          IN  /\ st.cacheAllCSFFiles = None /\ st.cachedCSFFiles = None
              /\ st.cache = None /\ st.stories = None

\* C4: when the registry is present with none of the known shapes, the error
\* of the run lists the property names observed on the registry object.
C4_UnsupportedShapeListsKeys ==
    (pc = "finally" /\ preview # None /\ NoKnownShape(Val(preview)) /\ error # None)
        => Val(error).previewKeys = Some(PreviewKeys(Val(preview)))

\* C5: an item without a stories collection is not handed to the generators
\* and the file writer, and never aborts the writing of the other items.
C5_InvalidItemExcluded ==
    /\ pc # "writeFailed"
    /\ (pc = "writeItems" /\ i <= Len(Val(result))) => Val(result)[i].stories # None

\* C6: the text written for a prose page is its non-empty fullSource values,
\* in variant order, with an empty line between consecutive values.
C6_ProsePageJoinedByBlankLine ==
    (genOut # None /\ IsMDXPage(Val(genItem.stories)))
        => Val(genOut).text =
              JoinStr(FilterNonEmpty([ k \in 1..Len(Val(genItem.stories)) |->
                                          FullSourceOf(Val(genItem.stories)[k]) ]),
                      "\n\n")

\* the item has no props and no subcomponent that carries doc metadata
NoPropsNoSubcomponents(item) ==
    /\ extractComponentProps(item.meta.component) = <<>>
    /\ item.meta.subcomponents # None =>
          \A k \in 1..Len(Val(item.meta.subcomponents)) :
              Val(item.meta.subcomponents)[k].docgen = None

\* the item is a prose page: it has variants and all of them are docsOnly
IsProsePage(item) ==
    Val(item.stories) # <<>> /\ IsMDXPage(Val(item.stories))

\* C7: for an item with no props and no documented subcomponents (an empty
\* subcomponents mapping and an item without variants included; prose pages
\* have their own rule) the text starts with the title heading and holds no
\* Props and no Subcomponents heading.
C7_NoEmptySections ==
    (genOut # None /\ NoPropsNoSubcomponents(genItem) /\ ~IsProsePage(genItem))
        => /\ Val(genOut).lines # <<>>
           /\ Val(genOut).lines[1] = "# " \o genItem.meta.title
           /\ "## Props" \notin Range(Val(genOut).lines)
           /\ "## Subcomponents" \notin Range(Val(genOut).lines)

\* C8: in every returned item, every prose variant (from the registry or
\* synthetic) has docsOnly set and a fullSource that is a string.
C8_ProseVariantsCarryFullSource ==
    result # None =>
        \A k \in 1..Len(Val(result)) :
            Val(result)[k].stories # None =>
                \A n \in 1..Len(Val(Val(result)[k].stories)) :
                    LET v == Val(Val(result)[k].stories)[n] IN
                    (v.docsOnly \/ raw[k].stories = Some(<<>>))
                        => (v.docsOnly /\ v.fullSource # None)

\* C8 witness: a returned collection holding a registry prose variant whose
\* extraction failed and a synthetic variant
C8_Witness ==
    /\ pc = "returned"
    /\ Len(Val(result)) = 2
    /\ <<1, 1>> \in failedAt
    /\ raw[1].stories # None /\ raw[1].stories # Some(<<>>)
    /\ Val(Val(result)[1].stories)[1].fullSource = Some("")
    /\ raw[2].stories = Some(<<>>)
    /\ Val(result)[2].stories # Some(<<>>)

\* C9: an empty-stories item gains exactly one synthetic variant when its
\* file is an .mdx file and none otherwise (file name absent included), and
\* handling it never aborts the run.
C9_EmptyStoriesItems ==
    /\ (pc \in {"finally", "failed"} /\ error # None /\ i <= Len(storeItems))
          => storeItems[i].stories # Some(<<>>)
    /\ pc = "enrich" =>
          \A k \in 1..(i - 1) :
              raw[k].stories = Some(<<>>) =>
                 IF raw[k].meta.fileName # None
                      /\ EndsWith(Val(raw[k].meta.fileName), <<".mdx">>)
                 THEN /\ Len(Val(storeItems[k].stories)) = 1
                      /\ Val(storeItems[k].stories)[1].id = Some(raw[k].meta.id)
                      /\ Val(storeItems[k].stories)[1].docsOnly
                 ELSE storeItems[k].stories = Some(<<>>)

\* C10: no two items of the collection carry the same id, so no two items
\* write the same file.
C10_ItemIdsUnique ==
    /\ \A k, n \in 1..Len(storeItems) :
          k # n => storeItems[k].meta.id # storeItems[n].meta.id
    /\ \A k, n \in 1..Len(written) :
          written[k].file = written[n].file => written[k].item = written[n].item

\* the per-item files of the returned collection
ItemFiles == UNION { {TxtFile(Val(result)[k]), HtmlFile(Val(result)[k])} :
                        k \in 1..Len(Val(result)) }

\* C11: the llms directory is emptied before any per-item file is written;
\* index.html and sitemap.xml are written only after every per-item file, so
\* a failure during per-item writing leaves no sitemap; after a complete run
\* llms holds index.html, sitemap.xml and one .txt and one .html per item,
\* and nothing else.
C11_WritingOrder ==
    /\ pc \in {"writeItems", "writeFailed"} =>
          /\ llmsFiles \cap StaleFiles = {}
          /\ <<"index", ".html">> \notin llmsFiles
          /\ llmsFiles = { written[k].file : k \in 1..Len(written) }
    /\ (pc \in {"writeAdditionalFiles", "writeSitemapFile", "done"}) =>
          Len(written) = 2 * Len(Val(result))
    /\ pc = "done" =>
          /\ llmsFiles = {<<"index", ".html">>, <<"sitemap", ".xml">>} \cup ItemFiles
          /\ Cardinality(llmsFiles) = 2 + 2 * Len(Val(result))

\* C12: a run returns the complete collection or fails: a run that failed
\* (the registry never appeared, had no known shape, or any other exception)
\* returns no items, and no writer runs and no file is written after it.
C12_AllOrNothing ==
    /\ (error # None /\ pc # "writeFailed") => result = None
    /\ pc = "failed" =>
          /\ rootFiles = {}
          /\ written = <<>>
          /\ llmsFiles \in { {}, StaleFiles }
    /\ (rootFiles # {} \/ written # <<>>) => result # None
    /\ result # None =>
          /\ Len(Val(result)) = Len(raw)
          /\ \A k \in 1..Len(raw) : Val(result)[k].meta = raw[k].meta

\* C12 witness: a run failed on a registry of unknown shape and the files of
\* the previous run are untouched
C12_Witness ==
    /\ pc = "failed"
    /\ error # None /\ Val(error).previewKeys # None
    /\ result = None
    /\ llmsFiles = StaleFiles

\* the link of a ref as the claim words it: {ref.url}/llms.txt
RefLinkVerbatim(ref) == JoinStr(ref.url, "") \o "/llms.txt"

\* the link of a ref with one trailing slash of its url removed
RefLinkNormalised(ref) ==
    JoinStr(IF ref.url # <<>> /\ ref.url[Len(ref.url)] = "/"
            THEN SubSeq(ref.url, 1, Len(ref.url) - 1) ELSE ref.url, "") \o "/llms.txt"

\* the result of generateSummaryContent has one bullet per item after its six
\* header lines, and an Optional section exactly when there are refs, whose
\* links have one trailing slash of the url removed when stripSlash, and
\* the url as it is otherwise
SummaryShape(stripSlash) ==
    (returned # None /\ Val(call).fn = "generateSummaryContent") =>
        LET out  == Val(returned)
            a    == Val(call).args
            d    == Val(call).data
            n    == Len(d)
            refs == IF a.refs = None THEN <<>> ELSE Val(a.refs)
        IN  /\ Len(out) >= 6 + n
            /\ \A k \in 1..n :
                  out[6 + k] =
                     "- [" \o d[k].meta.title \o "](" \o a.summaryBaseUrl \o "/llms/"
                       \o JoinStr(d[k].meta.id, "") \o ".html)"
                       \o (IF d[k].meta.description \in {None, Some(<<"">>)} THEN ""
                           ELSE ": " \o Head(Val(d[k].meta.description)))
            /\ ("## Optional" \in Range(out)) <=> (refs # <<>>)
            /\ IF refs = <<>> THEN Len(out) = 6 + n
               ELSE /\ Len(out) = 6 + n + 4 + Len(refs)
                    /\ out[6 + n + 2] = "## Optional"
                    /\ \A k \in 1..Len(refs) :
                          out[6 + n + 3 + k] =
                             "- [" \o refs[k].title \o "](" \o (IF stripSlash THEN RefLinkNormalised(refs[k])
                                  ELSE RefLinkVerbatim(refs[k])) \o ")"

RECURSIVE HasRule(_)
HasRule(t) ==
    \/ t.isString
    \/ /\ t.name # None
       /\ (Val(t.name) = "array" /\ t.elem # None) => HasRule(Val(t.elem))

\* the rendering the rules give a descriptor
RECURSIVE RuleRendering(_)
RuleRendering(t) ==
    CASE t.isString -> t.str
      [] ~t.isString /\ Val(t.name) \in {"enum", "union"} /\ t.values # None ->
            JoinStr(Val(t.values), " ")
      [] ~t.isString /\ Val(t.name) = "array" /\ t.elem # None ->
            RuleRendering(Val(t.elem)) \o "[]"
      [] ~t.isString /\ Val(t.name) = "signature" /\ t.values # None
            /\ Val(t.values) # <<>> /\ Head(Val(t.values)) = "function" -> "function"
      [] OTHER -> Val(t.name)

\* the prop table call at hand was made for the docgen entry arg
TableOf(arg) ==
    /\ returned # None
    /\ Val(call).fn = "generateComponentPropsTable"
    /\ LET ps == Val(Val(Val(call).docgen).props) IN ps[Len(ps)] = arg

\* the row of the table for the (only) prop
TableRow == Val(returned).table[3 + Len(Val(returned).props)]

C15_MissingTypeIsEmpty ==
    \A arg \in DocgenProps :
        (TableOf(arg) /\ arg.type = None) =>
            TableRow =
                  "| " \o Tick \o arg.name \o Tick \o " | " \o Tick \o Tick
                    \o " | " \o (IF arg.required = Some(TRUE) THEN "Yes" ELSE "No")
                    \o " | " \o (IF arg.defaultValue = None THEN "" ELSE Val(arg.defaultValue))
                    \o " | " \o (IF arg.description = None THEN ""
                                  ELSE JoinStr(Val(arg.description), " "))
                    \o " |"

\* all class tokens of the descendants, in document order
RECURSIVE AllTokens(_)
AllTokens(descendants) ==
    IF descendants = <<>> THEN <<>>
    ELSE Head(descendants) \o AllTokens(Tail(descendants))

\* the name after language- in the first token of that form, or nothing
FirstLanguageName(tokens) ==
    IF \E k \in 1..Len(tokens) : tokens[k] # <<>> /\ tokens[k][1] = "language-"
    THEN LET k == CHOOSE n \in 1..Len(tokens) :
                    /\ tokens[n] # <<>> /\ tokens[n][1] = "language-"
                    /\ \A m \in 1..(n - 1) : tokens[m] = <<>> \/ tokens[m][1] # "language-"
         IN  JoinStr(SubSeq(tokens[k], 2, Len(tokens[k])), "")
    ELSE ""

\* the block is the trimmed content between two fences, the first tagged
\* with the language; content that starts with a fence is left as it is
FencedOnce(el, language, out) ==
    LET inner == TrimEnd(TrimStart(el.content)) IN
    IF inner[1] = Fence THEN out = JoinStr(inner, "")
    ELSE out = Fence \o language \o "\n" \o JoinStr(inner, "") \o "\n" \o Fence

\* C16: a PRE element becomes a fenced block tagged with the name of the
\* first language-<name> class token of its descendants (no tag when there
\* is none) around the trimmed content; content that already starts with a
\* fence is returned unchanged; <pre><code class="language-tsx">const x =
\* 1;</code></pre> gives a block tagged tsx holding const x = 1;.
C16_CodeBlockRule ==
    (returned # None /\ Val(call).fn = "convertHtmlToMarkdown") =>
        LET el == Val(call).html[1] IN
        /\ FencedOnce(el, FirstLanguageName(AllTokens(el.descendants)), Val(returned))
        /\ el = Element("PRE", << << <<"language-", "tsx">> >> >>, <<"const x = 1;">>)
             => Val(returned) = Fence \o "tsx\nconst x = 1;\n" \o Fence

\* the first of the four item maps a store exposes, cacheAllCSFFiles having
\* filled cachedCSFFiles when it exists (None: the store exposes no map)
FirstMapOf(store) ==
    LET maps == << store.cacheAllCSFFiles, store.cachedCSFFiles, store.cache,
                   store.stories >>
    IN  IF \A n \in 1..4 : maps[n] = None THEN None
        ELSE maps[CHOOSE n \in 1..4 :
                     maps[n] # None /\ \A m \in 1..(n - 1) : maps[m] = None]

\* C17: the lookup takes the first shape present: the extract function when
\* it exists, whatever the store holds; otherwise storyStore when present,
\* else storyStoreValue; and from that store the map cacheAllCSFFiles fills,
\* else cachedCSFFiles, else cache, else stories.
C17_LookupPriority ==
    (pc = "enrich" /\ preview # None) =>
        LET p == Val(preview) IN
        /\ p.extract # None => raw = GroupByComponent(Val(p.extract), <<>>)
        /\ (p.extract = None /\ p.storyStore # None) =>
              Some(raw) = FirstMapOf(Val(p.storyStore))
        /\ (p.extract = None /\ p.storyStore = None) =>
              /\ p.storyStoreValue # None
              /\ Some(raw) = FirstMapOf(Val(p.storyStoreValue))

\* C17 witness: every shape was present, with the extract function, and the
\* items are those of the extract function
C17_Witness ==
    /\ pc = "enrich"
    /\ preview # None
    /\ Val(preview).extract # None
    /\ Val(preview).storyStore # None
    /\ StoreKeys(Val(Val(preview).storyStore)) =
          {"cacheAllCSFFiles", "cachedCSFFiles", "cache", "stories"}
    /\ Val(preview).storyStoreValue # None
    /\ Len(raw) = 1 /\ raw[1].meta.title = "extract"

\* the last segment of a path
LastSegment(path) == path[Len(path)]

\* C18: a request is answered with 200, the file and the content type of its
\* extension (application/octet-stream outside the table) when the resolved
\* file exists under the site root and can be read, with 404 when it does
\* not exist or lies outside the root, with 500 when reading it fails; a
\* path without extension resolves to index.html under that path.
C18_ThreeOutcomes ==
    (request # None /\ response # None) =>
        LET full  == FullPathOf(distPath, Val(request))
            under == UnderRoot(full, distPath)
            r     == Val(response)
        IN  /\ r.status \in {200, 404, 500}
            /\ (full \in disk /\ under /\ full \notin unreadable) =>
                  /\ r.status = 200
                  /\ r.body = full
                  /\ r.contentType =
                        (IF "html" \in Range(LastSegment(full)) THEN "text/html"
                         ELSE IF LastSegment(full) = <<"f", ".", "j", "s">>
                         THEN "application/javascript"
                         ELSE "application/octet-stream")
            /\ (full \notin disk \/ ~under) => r.status = 404
            /\ (full \in disk /\ under /\ full \in unreadable) => r.status = 500
            /\ (\A k \in 1..Len(Val(request)) : "." \notin Range(Val(request)[k])) =>
                  LastSegment(full) = <<"index", ".", "html">>

\* C19: every page-content extraction has closed its page when it returns,
\* after a success and after each kind of failure: between two extractions
\* of the enrichment loop no page is open in the context, so that the page
\* of the next extraction is the only one.
C19_ExtractionClosesItsPage ==
    pc = "enrich" => openPages = 0

\* the flat result preview.extract() resolved to in this run
FlatResult == Val(Val(preview).extract)

\* the component identifier of a flat entry: its componentId, else the part
\* of its id before the first "--" (an entry with neither: 'unknown')
ComponentIdentifier(e) ==
    IF e.componentId # None THEN Val(e.componentId)
    ELSE IF e.id # None THEN BeforeDashes(Val(e.id))
    ELSE <<"unknown">>

\* the position in the flat result of the first entry of a component
FirstEntryOf(cid) ==
    CHOOSE n \in 1..Len(FlatResult) :
        /\ ComponentIdentifier(FlatResult[n]) = cid
        /\ \A m \in 1..(n - 1) : ComponentIdentifier(FlatResult[m]) # cid

\* the variants of all items, as pairs of item and variant position
AllVariants ==
    { <<k, m>> \in (1..Len(raw)) \X (1..(2 * MaxItems)) : m <= Len(Val(raw[k].stories)) }

\* C20: under the extract strategy every entry of the flat result is a
\* variant of exactly one item, the item of its component identifier; there
\* are as many items as distinct component identifiers, in order of first
\* occurrence, each with the title and file name of its first entry.
C20_GroupingPartitions ==
    (pc = "enrich" /\ preview # None /\ Val(preview).extract # None) =>
        /\ Cardinality(AllVariants) = Len(FlatResult)
        /\ \A n \in 1..Len(FlatResult) :
              \E k \in 1..Len(raw) :
                 /\ raw[k].meta.id = ComponentIdentifier(FlatResult[n])
                 /\ \E m \in 1..Len(Val(raw[k].stories)) :
                       Val(raw[k].stories)[m].id = FlatResult[n].id
        /\ Len(raw) =
              Cardinality({ ComponentIdentifier(FlatResult[n]) : n \in 1..Len(FlatResult) })
        /\ \A k, n \in 1..Len(raw) :
              k < n => FirstEntryOf(raw[k].meta.id) < FirstEntryOf(raw[n].meta.id)
        /\ \A k \in 1..Len(raw) :
              LET first == FlatResult[FirstEntryOf(raw[k].meta.id)] IN
                 /\ first.title # None => raw[k].meta.title = Val(first.title)
                 /\ (first.parameters # None /\ Val(first.parameters).fileName # None)
                      => raw[k].meta.fileName = Val(first.parameters).fileName

\* the run has failed as a whole: it returned nothing, wrote nothing, and the
\* browser is closed
RunFailedAndClosed ==
    /\ pc = "failed"
    /\ error # None
    /\ result = None
    /\ written = <<>>
    /\ browser = "closed"

\* C21: the wait for the registry is bounded: a run that waits on an entry
\* page where the registry never appears eventually fails as a whole, with
\* the browser closed, and the wait is not retried: the step that ends the
\* wait goes to the finally block, and the wait is entered only once, from
\* the opening of the entry page.
C21_RegistryWaitIsBounded ==
    /\ (pc = "waitForFunction" /\ preview = None) ~> RunFailedAndClosed
    /\ [][ /\ (pc = "waitForFunction" /\ preview = None) => pc' = "finally"
           /\ pc' = "waitForFunction" => pc = "extractAll"
           /\ pc' = "extractAll" => pc = "newContext" ]_vars

\* C21 witness: a run that waited for a registry that never appeared has
\* failed with the timeout of the wait, and the browser is closed
C21_Witness ==
    /\ RunFailedAndClosed
    /\ Val(error).name = "TimeoutError"
    /\ storeItems = <<>>

\* the items have been built from the registry
ItemsBuilt ==
    pc \notin {"idle", "launch", "newContext", "extractAll", "waitForFunction"}

\* a step changes a variant at most by setting the fullSource of a variant
\* that has docsOnly set
VariantFrame(old, new) ==
    \/ new = old
    \/ /\ old.docsOnly
       /\ new.fullSource # None
       /\ [ new EXCEPT !.fullSource = old.fullSource ] = old

\* a step changes an item at most by setting fullSource on its prose
\* variants, or by giving an .mdx item with an empty stories collection one
\* synthetic prose variant; its meta data stay as they are
ItemFrame(old, new) ==
    /\ new.meta = old.meta
    /\ \/ new.stories = old.stories
       \/ /\ old.stories # None /\ new.stories # None
          /\ Len(Val(new.stories)) = Len(Val(old.stories))
          /\ \A m \in 1..Len(Val(old.stories)) :
                VariantFrame(Val(old.stories)[m], Val(new.stories)[m])
       \/ /\ old.stories = Some(<<>>)
          /\ old.meta.fileName # None
          /\ EndsWith(Val(old.meta.fileName), <<".mdx">>)
          /\ new.stories # None
          /\ Len(Val(new.stories)) = 1
          /\ Val(new.stories)[1].docsOnly
          /\ Val(new.stories)[1].id = Some(old.meta.id)

\* C22: once the items are built, the collection changes only during
\* enrichment, and only by fullSource being set on variants with docsOnly
\* and by one synthetic variant being added to an .mdx item with an empty
\* stories collection: number, order and meta data of the items and every
\* non-prose variant stay as they are, and no step after the return of the
\* collection (the writers of summary, per-item files, index and sitemap)
\* changes any item.
C22_OnlyEnrichmentChangesItems ==
    [][ ItemsBuilt =>
          /\ Len(storeItems') = Len(storeItems)
          /\ \A k \in 1..Len(storeItems) : ItemFrame(storeItems[k], storeItems'[k])
          /\ storeItems' # storeItems => (pc = "enrich" /\ result = None)
          /\ result # None => (result' = result /\ storeItems' = storeItems) ]_vars

\* C22 witness: all files of a run are written whose enrichment set the
\* fullSource of a prose variant next to a variant that is not prose and
\* gave a second item its synthetic variant
C22_Witness ==
    /\ pc = "done"
    /\ Len(raw) = 2
    /\ Val(result) = storeItems
    /\ Len(Val(raw[1].stories)) = 2
    /\ Val(raw[1].stories)[1].docsOnly /\ ~Val(raw[1].stories)[2].docsOnly
    /\ Val(raw[1].stories)[1].fullSource = None
    /\ Val(storeItems[1].stories)[1].fullSource # None
    /\ Val(storeItems[1].stories)[2] = Val(raw[1].stories)[2]
    /\ raw[2].stories = Some(<<>>)
    /\ Len(Val(storeItems[2].stories)) = 1

=============================================================================
